---- MODULE Spec2Model ----
(***************************************************************************)
(* A model of solve.cc: the Level value type (grid of cells, group count), *)
(* the push / gravity / merge operations on it, the win test, the          *)
(* successor generator and the breadth-first Solve loop.                   *)
(***************************************************************************)
EXTENDS Integers, Sequences, FiniteSets, TLC

\* ------------------------------------------------------------------------
\* Bounds of the model (sizes of the levels that are read in)
\* ------------------------------------------------------------------------
MaxBlocks == 3
MaxWalls == 1

\* Interior sizes <<rows, columns>> of the enumerated levels (Shapes) and of
\* the grids of SpecGrid (GridShapes), and the colors of their blocks
Shapes == {<<3, 2>>, <<2, 3>>}
GridShapes == {<<3, 2>>}
Colors == {1, 2}

\* ------------------------------------------------------------------------
\* Constants of the program
\* ------------------------------------------------------------------------
ND == 4
DR == <<0, 0, 1, -1>>
DC == <<-1, 1, 0, 0>>

OPEN == 0
WALL == 1
MOVABLE == 2

ByteRange == 256

Narrow(r, c) == <<r % ByteRange, c % ByteRange>>

\* Cell{type, color, group}; Cell() is the default-constructed (OPEN) cell.
MkCell(t, col, g) == [type |-> t, color |-> col, group |-> g]
Cell == MkCell(OPEN, 0, 0)

\* Interior positions in the order of the nested loops
\*   for (r = 1; r + 1 < height; ++r) for (c = 1; c + 1 < width; ++c)
Scan(width, height) ==
  [k \in 1..((height - 2) * (width - 2)) |->
     <<1 + ((k - 1) \div (width - 2)), 1 + ((k - 1) % (width - 2))>>]

\* ------------------------------------------------------------------------
\* Input characters
\* ------------------------------------------------------------------------
Digits == <<"1", "2", "3", "4", "5", "6", "7", "8", "9">>

IsDigit(ch) == \E k \in 1..9 : Digits[k] = ch

\* ch - '0' for a digit character
DigitValue(ch) == CHOOSE k \in 1..9 : Digits[k] = ch

\* ------------------------------------------------------------------------
\* Regroup / RemoveUnusedGroupNumber / UpdateConnections
\* ------------------------------------------------------------------------
\* (variant of Regroup: only the cell itself is given the new id)
RegroupCell(grid, r, c, from, to) ==
  IF grid[r][c].group # from THEN grid ELSE [grid EXCEPT ![r][c].group = to]

RECURSIVE Regroup(_, _, _, _, _)
Regroup(grid, r, c, from, to) ==
  IF grid[r][c].group # from THEN grid
  ELSE LET g0 == [grid EXCEPT ![r][c].group = to]
           g1 == Regroup(g0, r - 1, c, from, to)
           g2 == Regroup(g1, r + 1, c, from, to)
           g3 == Regroup(g2, r, c - 1, from, to)
       IN  Regroup(g3, r, c + 1, from, to)

\* (variant of Renumber: the ids above the removed one are left as they are)
RenumberKeep(group, g) == group

\* The new id of a cell when group number g is removed
Renumber(group, g) == IF group > g THEN group - 1 ELSE group

\* Returns the level and whether both assertions held.
RemoveUnusedGroupNumber(L, g) ==
  LET interior == {<<r, c>> \in (1..(L.height - 2)) \X (1..(L.width - 2)) : TRUE}
  IN  [lv |-> [L EXCEPT
                 !.grid = [r \in 0..(L.height - 1) |-> [c \in 0..(L.width - 1) |->
                             IF <<r, c>> \in interior
                             THEN [L.grid[r][c] EXCEPT !.group = Renumber(L.grid[r][c].group, g)]
                             ELSE L.grid[r][c]]],
                 !.groups = L.groups - 1],
       ok |-> /\ g > 0 /\ g <= L.groups
              /\ \A p \in interior : L.grid[p[1]][p[2]].group # g]

\* One of the two neighbour tests of UpdateConnections, for the cell at
\* (r, c) and its neighbour at (r2, c2).
Merged(S, rm) == [lv |-> rm.lv, ok |-> S.ok /\ rm.ok]

\* (variant of MergeNeighbor: the colors are not compared)
MergeNeighborAnyColor(S, r, c, r2, c2) ==
  LET cell == S.lv.grid[r][c]
      nb == S.lv.grid[r2][c2]
  IN  IF nb.type = MOVABLE /\ nb.group # cell.group
      THEN Merged(S, RemoveUnusedGroupNumber(
                       [S.lv EXCEPT !.grid = Regroup(S.lv.grid, r2, c2, nb.group, cell.group)],
                       nb.group))
      ELSE S

MergeNeighbor(S, r, c, r2, c2) ==
  LET cell == S.lv.grid[r][c]
      nb == S.lv.grid[r2][c2]
  IN  IF nb.type = MOVABLE /\ nb.group # cell.group /\ nb.color = cell.color
      THEN Merged(S, RemoveUnusedGroupNumber(
                       [S.lv EXCEPT !.grid = Regroup(S.lv.grid, r2, c2, nb.group, cell.group)],
                       nb.group))
      ELSE S

RECURSIVE UpdateLoop(_, _)
UpdateLoop(S, k) ==
  LET scan == Scan(S.lv.width, S.lv.height)
  IN  IF k > Len(scan) THEN S
      ELSE LET r == scan[k][1]
               c == scan[k][2]
               cell == S.lv.grid[r][c]
           IN  IF cell.type = MOVABLE /\ cell.color > 0
               THEN UpdateLoop(MergeNeighbor(MergeNeighbor(S, r, c, r, c + 1), r, c, r + 1, c), k + 1)
               ELSE UpdateLoop(S, k + 1)

\* Returns [lv, ok]: the level after the merge pass, and whether every
\* assertion met on the way held.
UpdateConnections(L) == UpdateLoop([lv |-> L, ok |-> TRUE], 1)

\* ------------------------------------------------------------------------
\* Level::Level(input): input is a sequence of rows, each a sequence of
\* one-character strings.
\* ------------------------------------------------------------------------
Level(input) ==
  LET width == Len(input[1]) + 2
      height == Len(input) + 2
      border(r, c) == r = 0 \/ r = height - 1 \/ c = 0 \/ c = width - 1
      \* value of ++groups when the loops reach (r, c)
      counter(r, c) == Cardinality({p \in (1..(height - 2)) \X (1..(width - 2)) :
                          /\ IsDigit(input[p[1]][p[2]])
                          /\ (p[1] < r \/ (p[1] = r /\ p[2] <= c))})
      raw == [r \in 0..(height - 1) |-> [c \in 0..(width - 1) |->
                IF border(r, c) THEN MkCell(WALL, 0, 0)
                ELSE LET ch == input[r][c]
                     IN  IF ch = "#" THEN MkCell(WALL, 0, 0)
                         ELSE IF IsDigit(ch) THEN MkCell(MOVABLE, DigitValue(ch), counter(r, c))
                         ELSE Cell]]
  IN  UpdateConnections([width |-> width, height |-> height,
                         groups |-> counter(height - 2, width - 2), grid |-> raw])

\* ------------------------------------------------------------------------
\* GrabMovable / TryMove / DropDown
\* ------------------------------------------------------------------------
RECURSIVE GrabMovable(_, _, _, _, _)
RECURSIVE GrabDirection(_, _, _, _, _, _, _)

\* (variant of GrabDirection: a block lying in the push direction is grabbed
\* only when it has the group of the current cell)
GrabDirectionSameGroup(st, r, c, dr, dc, g, d) ==
  IF ~st.res THEN st
  ELSE LET r2 == r + DR[d]
           c2 == c + DC[d]
           nb == st.grid[r2][c2]
       IN  IF DR[d] = dr /\ DC[d] = dc /\ nb.type = WALL THEN [st EXCEPT !.res = FALSE]
           ELSE IF nb.type = MOVABLE /\ nb.group = g THEN GrabMovable(st, r2, c2, dr, dc)
           ELSE st

\* (variant of GrabDirection: the blocks of the same group in the other
\* three directions are not grabbed)
GrabDirectionPushOnly(st, r, c, dr, dc, g, d) ==
  IF ~st.res THEN st
  ELSE LET r2 == r + DR[d]
           c2 == c + DC[d]
           nb == st.grid[r2][c2]
       IN  IF DR[d] = dr /\ DC[d] = dc
           THEN IF nb.type = WALL THEN [st EXCEPT !.res = FALSE]
                ELSE IF nb.type = MOVABLE THEN GrabMovable(st, r2, c2, dr, dc)
                ELSE st
           ELSE st

\* The body of the loop over d in GrabMovable, for direction d (1..ND).
\* st = [grid, points, res]; once res is FALSE the call has returned false.
GrabDirection(st, r, c, dr, dc, g, d) ==
  IF ~st.res THEN st
  ELSE LET r2 == r + DR[d]
           c2 == c + DC[d]
           nb == st.grid[r2][c2]
       IN  IF DR[d] = dr /\ DC[d] = dc
           THEN IF nb.type = WALL THEN [st EXCEPT !.res = FALSE]
                ELSE IF nb.type = MOVABLE THEN GrabMovable(st, r2, c2, dr, dc)
                ELSE st
           ELSE IF nb.type = MOVABLE /\ nb.group = g THEN GrabMovable(st, r2, c2, dr, dc)
                ELSE st

GrabMovable(st, r, c, dr, dc) ==
  LET g == st.grid[r][c].group
      s0 == [grid |-> [st.grid EXCEPT ![r][c] = Cell],
             points |-> Append(st.points, <<Narrow(r, c), st.grid[r][c]>>),
             res |-> TRUE]
      s1 == GrabDirection(s0, r, c, dr, dc, g, 1)
      s2 == GrabDirection(s1, r, c, dr, dc, g, 2)
      s3 == GrabDirection(s2, r, c, dr, dc, g, 3)
  IN  GrabDirection(s3, r, c, dr, dc, g, 4)

\* (variant of PlaceDelta: the delta is not cleared when the grab failed)
PlaceDeltaKeep(res, d) == d

\* if (!res) dr = dc = 0;
PlaceDelta(res, d) == IF res THEN d ELSE 0

\* (variant of PlacePoints: only the point at k is written back)
PlacePointsFirst(S, points, k, dr, dc) ==
  IF k > Len(points) THEN S
  ELSE [grid |-> [S.grid EXCEPT ![points[k][1][1] + dr][points[k][1][2] + dc] = points[k][2]],
        ok |-> S.ok /\ S.grid[points[k][1][1] + dr][points[k][1][2] + dc].type = OPEN]

RECURSIVE PlacePoints(_, _, _, _, _)
PlacePoints(S, points, k, dr, dc) ==
  IF k > Len(points) THEN S
  ELSE LET r2 == points[k][1][1] + dr
           c2 == points[k][1][2] + dc
       IN  PlacePoints([grid |-> [S.grid EXCEPT ![r2][c2] = points[k][2]],
                        ok |-> S.ok /\ S.grid[r2][c2].type = OPEN],
                       points, k + 1, dr, dc)

\* (variant of TryMovePlaced: the grid is returned as GrabMovable left it,
\* without the recorded cells)
TryMovePlacedEmpty(gr, pl) ==
  [grid |-> gr.grid, res |-> gr.res, ok |-> pl.ok, points |-> gr.points]

\* Returns [grid, res, ok, points]: the grid after the call, the returned
\* boolean, whether the destination assertion held for every point, and the
\* recorded points.
TryMovePlaced(gr, pl) ==
  [grid |-> pl.grid, res |-> gr.res, ok |-> pl.ok, points |-> gr.points]

\* (variant of TryMoveGrabbed: the row and column deltas are exchanged)
TryMoveGrabbedSwapped(gr, dr, dc) ==
  TryMovePlaced(gr, PlacePoints([grid |-> gr.grid, ok |-> TRUE], gr.points, 1,
                                PlaceDelta(gr.res, dc), PlaceDelta(gr.res, dr)))

\* The part of TryMove after the call of GrabMovable, whose result is gr
TryMoveGrabbed(gr, dr, dc) ==
  TryMovePlaced(gr, PlacePoints([grid |-> gr.grid, ok |-> TRUE], gr.points, 1,
                                PlaceDelta(gr.res, dr), PlaceDelta(gr.res, dc)))

TryMove(grid, r, c, dr, dc) ==
  TryMoveGrabbed(GrabMovable([grid |-> grid, points |-> <<>>, res |-> TRUE], r, c, dr, dc),
                 dr, dc)

\* (variant of DropOrder: the sweep runs from the last cell to the first)
DropOrderUp(width, height) ==
  [k \in 1..Len(Scan(width, height)) |-> Scan(width, height)[Len(Scan(width, height)) + 1 - k]]

\* The order in which DropDown meets the cells
DropOrder(width, height) == Scan(width, height)

Dropped(S, tm) == [grid |-> tm.grid, ok |-> S.ok /\ tm.ok]

RECURSIVE DropLoop(_, _, _)
DropLoop(S, order, k) ==
  IF k > Len(order) THEN S
  ELSE IF S.grid[order[k][1]][order[k][2]].type = MOVABLE
       THEN DropLoop(Dropped(S, TryMove(S.grid, order[k][1], order[k][2], 1, 0)), order, k + 1)
       ELSE DropLoop(S, order, k + 1)

\* Returns [grid, ok]
DropDown(L) ==
  DropLoop([grid |-> L.grid, ok |-> TRUE], DropOrder(L.width, L.height), 1)

\* ------------------------------------------------------------------------
\* MoveGroup
\* ------------------------------------------------------------------------
\* Index in the scan of the first cell met with grid[r][c].group == group,
\* 0 when the loops end without meeting one.
FirstOfGroup(L, group) ==
  LET scan == Scan(L.width, L.height)
      hits == {k \in 1..Len(scan) : L.grid[scan[k][1]][scan[k][2]].group = group}
  IN  IF hits = {} THEN 0 ELSE CHOOSE k \in hits : \A j \in hits : k <= j

\* MoveGroup returns [lv, res, ok, placed, pushed, dropped]: the level
\* after the call, the returned boolean, whether every assertion held,
\* whether the destination assertion of every TryMove call held, and the
\* grids right after TryMove and right after DropDown.  Each step of the function
\* hands its result to the next as a parameter.

\* return true, with uc the result of UpdateConnections()
MoveGroupUpdated(pre, tm, dd, uc) ==
  [lv |-> uc.lv, res |-> TRUE, ok |-> pre /\ tm.ok /\ dd.ok /\ uc.ok,
   placed |-> tm.ok /\ dd.ok, pushed |-> tm.grid, dropped |-> dd.grid]

\* UpdateConnections(), with dd the result of DropDown()
MoveGroupDropped(L, pre, tm, dd) ==
  MoveGroupUpdated(pre, tm, dd, UpdateConnections([L EXCEPT !.grid = dd.grid]))

\* (variant of MoveGroupTried: DropDown() is called before the test of the
\* result of TryMove)
MoveGroupTriedSettling(L, pre, tm) ==
  IF ~tm.res
  THEN [lv |-> [L EXCEPT !.grid = DropDown([L EXCEPT !.grid = tm.grid]).grid],
        res |-> FALSE, ok |-> pre /\ tm.ok, placed |-> tm.ok,
        pushed |-> tm.grid, dropped |-> tm.grid]
  ELSE MoveGroupDropped(L, pre, tm, DropDown([L EXCEPT !.grid = tm.grid]))

\* if (!TryMove(r, c, dr, dc)) return false; DropDown(); with tm the result
\* of TryMove
MoveGroupTried(L, pre, tm) ==
  IF ~tm.res
  THEN [lv |-> [L EXCEPT !.grid = tm.grid], res |-> FALSE, ok |-> pre /\ tm.ok,
        placed |-> tm.ok, pushed |-> tm.grid, dropped |-> tm.grid]
  ELSE MoveGroupDropped(L, pre, tm, DropDown([L EXCEPT !.grid = tm.grid]))

\* The loops have met the first cell of the group at scan index k (0: none,
\* assert(false) and return false); pre is the value of the two assertions
\* at the head of the function.
MoveGroupAt(L, k, dr, dc, pre) ==
  IF k = 0
  THEN [lv |-> L, res |-> FALSE, ok |-> FALSE, placed |-> TRUE,
        pushed |-> L.grid, dropped |-> L.grid]
  ELSE MoveGroupTried(L, pre, TryMove(L.grid, Scan(L.width, L.height)[k][1],
                                      Scan(L.width, L.height)[k][2], dr, dc))

MoveGroup(L, group, dr, dc) ==
  MoveGroupAt(L, FirstOfGroup(L, group), dr, dc,
              /\ ((dr = 0 /\ (dc = -1 \/ dc = 1)) \/ (dc = 0 /\ (dr = -1 \/ dr = 1)))
              /\ group > 0 /\ group <= L.groups)

\* ------------------------------------------------------------------------
\* Solved / MarkColorVisited
\* ------------------------------------------------------------------------
RECURSIVE MarkColorVisited(_, _, _, _)
RECURSIVE MarkDirection(_, _, _, _, _)

\* (variant of MarkDirection: the fill follows cells of the same group)
MarkDirectionByGroup(grid, r, c, visited, d) ==
  LET r2 == r + DR[d]
      c2 == c + DC[d]
  IN  IF /\ grid[r2][c2].type = MOVABLE
         /\ grid[r2][c2].group = grid[r][c].group
         /\ <<r2, c2>> \notin visited
      THEN MarkColorVisited(grid, r2, c2, visited)
      ELSE visited

MarkDirection(grid, r, c, visited, d) ==
  LET r2 == r + DR[d]
      c2 == c + DC[d]
  IN  IF /\ grid[r2][c2].type = MOVABLE
         /\ grid[r2][c2].color = grid[r][c].color
         /\ <<r2, c2>> \notin visited
      THEN MarkColorVisited(grid, r2, c2, visited)
      ELSE visited

MarkColorVisited(grid, r, c, visited) ==
  LET v0 == visited \cup {<<r, c>>}
      v1 == MarkDirection(grid, r, c, v0, 1)
      v2 == MarkDirection(grid, r, c, v1, 2)
      v3 == MarkDirection(grid, r, c, v2, 3)
  IN  MarkDirection(grid, r, c, v3, 4)

RECURSIVE SolvedLoop(_, _, _, _)
SolvedLoop(L, visited, colors, k) ==
  LET scan == Scan(L.width, L.height)
  IN  IF k > Len(scan) THEN TRUE
      ELSE LET r == scan[k][1]
               c == scan[k][2]
               cell == L.grid[r][c]
           IN  IF <<r, c>> \notin visited /\ cell.type = MOVABLE /\ cell.color > 0
               THEN IF cell.color \in colors THEN FALSE
                    ELSE SolvedLoop(L, MarkColorVisited(L.grid, r, c, visited),
                                    colors \cup {cell.color}, k + 1)
               ELSE SolvedLoop(L, visited, colors, k + 1)

Solved(L) == SolvedLoop(L, {}, {}, 1)

\* ------------------------------------------------------------------------
\* operator<=> of Level (defaulted): width, height, groups, then the grid
\* row by row, each cell by type, color, group.
\* ------------------------------------------------------------------------
RECURSIVE SeqLess(_, _, _)
SeqLess(a, b, k) ==
  IF k > Len(a) \/ k > Len(b) THEN Len(a) < Len(b)
  ELSE IF a[k] # b[k] THEN a[k] < b[k]
  ELSE SeqLess(a, b, k + 1)

\* (variant of LevelKey: the group ids of the cells are left out)
LevelKeyNoGroups(L) ==
  <<L.width, L.height, L.groups>> \o
  [k \in 1..(3 * L.width * L.height) |->
     LET cell == L.grid[((k - 1) \div 3) \div L.width][((k - 1) \div 3) % L.width]
     IN  CASE (k - 1) % 3 = 0 -> cell.type
           [] (k - 1) % 3 = 1 -> cell.color
           [] OTHER -> 0]

LevelKey(L) ==
  <<L.width, L.height, L.groups>> \o
  [k \in 1..(3 * L.width * L.height) |->
     LET cell == L.grid[((k - 1) \div 3) \div L.width][((k - 1) \div 3) % L.width]
     IN  CASE (k - 1) % 3 = 0 -> cell.type
           [] (k - 1) % 3 = 1 -> cell.color
           [] OTHER -> cell.group]

LevelLess(A, B) == SeqLess(LevelKey(A), LevelKey(B), 1)

\* ------------------------------------------------------------------------
\* Successors
\* ------------------------------------------------------------------------
\* std::sort followed by std::unique / erase
RECURSIVE SortUnique(_)
SortUnique(S) ==
  IF S = {} THEN <<>>
  ELSE LET m == CHOOSE x \in S : \A y \in S : ~LevelLess(y, x)
       IN  <<m>> \o SortUnique(S \ {m})

\* The attempts of the two loops, in order: g = 1..groups, dc in {-1, +1}
Attempts(groups) == [k \in 1..(2 * groups) |-> <<(k + 1) \div 2, IF k % 2 = 1 THEN -1 ELSE 1>>]

\* (variant of CopyAfter: the working copy is never replaced)
CopyAfterStale(this, mv) == mv.lv

\* The working copy after an attempt: a successful one is moved into the
\* result and replaced by a copy of *this, a failed one is kept as it is.
CopyAfter(this, mv) == IF mv.res THEN this ELSE mv.lv

\* if (copy.MoveGroup(g, 0, dc)) result.push_back(std::move(copy));
ResultAfter(result, mv) == IF mv.res THEN Append(result, mv.lv) ELSE result

RECURSIVE SuccessorsLoop(_, _, _, _)
RECURSIVE SuccessorsAttempt(_, _, _, _)

\* The rest of the loop, with mv the result of attempt k
SuccessorsAttempt(this, result, k, mv) ==
  SuccessorsLoop(this, CopyAfter(this, mv), ResultAfter(result, mv), k + 1)

SuccessorsLoop(this, copy, result, k) ==
  IF k > 2 * this.groups THEN result
  ELSE SuccessorsAttempt(this, result, k,
                         MoveGroup(copy, Attempts(this.groups)[k][1], 0,
                                   Attempts(this.groups)[k][2]))

Range(seq) == {seq[k] : k \in 1..Len(seq)}

Successors(L) == SortUnique(Range(SuccessorsLoop(L, L, <<>>, 1)))

\* ------------------------------------------------------------------------
\* The levels that are read in: every rectangle of a size in Shapes with at
\* most MaxBlocks digits (of the colors in Colors) and at most MaxWalls '#'
\* characters, the other characters being spaces.
\* ------------------------------------------------------------------------
Positions(d) == (1..d[1]) \X (1..d[2])

BlockSets(d) == {B \in SUBSET Positions(d) : Cardinality(B) <= MaxBlocks}

WallSets(d, B) == {Wl \in SUBSET (Positions(d) \ B) : Cardinality(Wl) <= MaxWalls}

MkInput(d, B, Wl, col) ==
  [r \in 1..d[1] |-> [c \in 1..d[2] |->
     IF <<r, c>> \in B THEN Digits[col[<<r, c>>]]
     ELSE IF <<r, c>> \in Wl THEN "#" ELSE " "]]

\* Some levels outside the enumeration, one row per string-like tuple:
\* two color-1 blocks with a gap, the mirrored row 12 21, a block two empty
\* rows above the floor, and a 3 x 3 level with four blocks of two colors.
Scenarios ==
  { << <<"1", " ", "1">> >>,
    << <<"1", "2", " ", "2", "1">> >>,
    << <<"1">>, <<" ">>, <<" ">> >>,
    << <<"1", " ", " ">>, <<"2", " ", "1">>, <<" ", " ", "2">> >> }

\* ------------------------------------------------------------------------
\* State
\* ------------------------------------------------------------------------
VARIABLES
  input,                 \* the rows handed to the Level constructor
  level,                 \* a Level object on which MoveGroup is called
  last,                  \* record of the last MoveGroup call on level
  asserts,               \* TRUE while no assert() of the program has failed
  pc,                    \* position in Solve
  level_index,           \* Solve: std::map<Level, int>
  levels,                \* Solve: the visited levels, in insertion order
  previous_level_index,  \* Solve: predecessor index of each visited level
  i,                     \* Solve: index of the level being expanded
  pending,               \* Solve: successors of levels[i] not yet looked at
  succs,                 \* Solve: the value level.Successors() returned last
  result                 \* Solve: the returned vector

vars == <<input, level, last, asserts, pc, level_index, levels,
          previous_level_index, i, pending, succs, result>>

solveVars == <<pc, level_index, levels, previous_level_index, i, pending, succs, result>>

NoCall == [called |-> FALSE, op |-> "none"]

SolveIdle ==
  /\ pc = "idle"
  /\ level_index = <<>>
  /\ levels = <<>>
  /\ previous_level_index = <<>>
  /\ i = 0
  /\ pending = <<>>
  /\ succs = <<>>
  /\ result = <<>>

\* ------------------------------------------------------------------------
\* Specification Spec: a Level is constructed from an input and MoveGroup is
\* called on it with any group and horizontal direction, any number of
\* times.
\* ------------------------------------------------------------------------
ReadInput ==
  \/ \E d \in Shapes : \E B \in BlockSets(d) : \E Wl \in WallSets(d, B) :
       \E col \in [B -> Colors] : input = MkInput(d, B, Wl, col)
  \/ input \in Scenarios

Constructed(ctor) ==
  /\ level = ctor.lv
  /\ asserts = ctor.ok

Init ==
  /\ ReadInput
  /\ Constructed(Level(input))
  /\ last = NoCall
  /\ SolveIdle

\* level.MoveGroup(g, 0, dc), for any group and horizontal direction
Returned(g, dc, mv) ==
  /\ level' = mv.lv
  /\ last' = [called |-> TRUE, op |-> "MoveGroup", pre |-> level, group |-> g, dc |-> dc,
              res |-> mv.res, placed |-> mv.placed, pushed |-> mv.pushed,
              dropped |-> mv.dropped]
  /\ asserts' = (asserts /\ mv.ok)

CallMoveGroup ==
  /\ pc = "idle"
  /\ ~last.called
  /\ \E g \in 1..level.groups : \E dc \in {-1, 1} : Returned(g, dc, MoveGroup(level, g, 0, dc))
  /\ UNCHANGED <<input, solveVars>>

\* The caller has looked at the returned value; level is ready for the
\* next call.
ReturnToCaller ==
  /\ pc = "idle"
  /\ last.called
  /\ last' = NoCall
  /\ UNCHANGED <<input, level, asserts, solveVars>>

Next == CallMoveGroup \/ ReturnToCaller

Spec == Init /\ [][Next]_vars

\* ------------------------------------------------------------------------
\* Specification SpecGrid: DropDown and Solved are applied to any grid, also
\* to grids no input produces: blocks of color 0, groups of several colors,
\* groups whose cells do not touch.
\* ------------------------------------------------------------------------
\* Labelings of the blocks B by group ids 1..k, every id used, ids first
\* met in scan order
Labelings(d, B) ==
  LET before(p, q) == p[1] < q[1] \/ (p[1] = q[1] /\ p[2] < q[2])
  IN  {f \in [B -> 1..Cardinality(B)] :
         \A q \in B : \A g \in 1..(f[q] - 1) : \E p \in B : before(p, q) /\ f[p] = g}

MkLevel(d, B, Wl, col, grp) ==
  [width |-> d[2] + 2,
   height |-> d[1] + 2,
   groups |-> Cardinality({grp[p] : p \in B}),
   grid |-> [r \in 0..(d[1] + 1) |-> [c \in 0..(d[2] + 1) |->
               IF r = 0 \/ r = d[1] + 1 \/ c = 0 \/ c = d[2] + 1 \/ <<r, c>> \in Wl
               THEN MkCell(WALL, 0, 0)
               ELSE IF <<r, c>> \in B THEN MkCell(MOVABLE, col[<<r, c>>], grp[<<r, c>>])
               ELSE Cell]]]

InitGrid ==
  /\ input = <<>>
  /\ \E d \in GridShapes : \E B \in BlockSets(d) : \E Wl \in WallSets(d, B) :
       \E col \in [B -> {0} \cup Colors] : \E grp \in Labelings(d, B) :
         level = MkLevel(d, B, Wl, col, grp)
  /\ asserts = TRUE
  /\ last = NoCall
  /\ SolveIdle

Swept(dd) ==
  /\ level' = [level EXCEPT !.grid = dd.grid]
  /\ last' = [called |-> TRUE, op |-> "DropDown", pre |-> level]
  /\ asserts' = (asserts /\ dd.ok)

CallDropDown ==
  /\ ~last.called
  /\ Swept(DropDown(level))
  /\ UNCHANGED <<input, solveVars>>

CallSolved ==
  /\ ~last.called
  /\ last' = [called |-> TRUE, op |-> "Solved", pre |-> level, res |-> Solved(level)]
  /\ UNCHANGED <<input, level, asserts, solveVars>>

NextGrid == CallDropDown \/ CallSolved

SpecGrid == InitGrid /\ [][NextGrid]_vars

\* ------------------------------------------------------------------------
\* Specification SpecSolve: Solve(initial_level), with level holding
\* initial_level.  pc is "start" before the test of the initial level,
\* "loop" at the head of the for loop over i, "visit" inside the loop over
\* the successors of levels[i], "done" after a return.  Indices are those of
\* the program (from 0); the sequences of the model are indexed from 1.
\* ------------------------------------------------------------------------
InitSolve ==
  /\ ReadInput
  /\ Constructed(Level(input))
  /\ last = NoCall
  /\ pc = "start"
  /\ level_index = <<>>
  /\ levels = <<>>
  /\ previous_level_index = <<>>
  /\ i = 0
  /\ pending = <<>>
  /\ succs = <<>>
  /\ result = <<>>

\* (variant of SolveStart: the initial level is not tested with Solved())
SolveStartUntested ==
  /\ pc = "start"
  /\ level_index' = (level :> 0)
  /\ levels' = <<level>>
  /\ previous_level_index' = <<-1>>
  /\ pc' = "loop"
  /\ UNCHANGED <<input, level, last, asserts, i, pending, succs, result>>

\* The head of Solve, up to the for loop
SolveStart ==
  /\ pc = "start"
  /\ IF Solved(level)
     THEN /\ result' = <<level>>
          /\ pc' = "done"
          /\ UNCHANGED <<level_index, levels, previous_level_index>>
     ELSE /\ level_index' = (level :> 0)
          /\ levels' = <<level>>
          /\ previous_level_index' = <<-1>>
          /\ pc' = "loop"
          /\ UNCHANGED result
  /\ UNCHANGED <<input, level, last, asserts, i, pending, succs>>

Expanded(list) ==
  /\ succs' = list
  /\ pending' = list

\* i < level_index.size(): level.Successors() is called for levels[i]
SolveExpand ==
  /\ pc = "loop"
  /\ i < Cardinality(DOMAIN level_index)
  /\ Expanded(Successors(levels[i + 1]))
  /\ pc' = "visit"
  /\ UNCHANGED <<input, level, last, asserts, level_index, levels,
                 previous_level_index, i, result>>

\* The for loop ends: "No solution found", the empty result is returned
SolveExhausted ==
  /\ pc = "loop"
  /\ ~(i < Cardinality(DOMAIN level_index))
  /\ pc' = "done"
  /\ UNCHANGED <<input, level, last, asserts, level_index, levels,
                 previous_level_index, i, pending, succs, result>>

\* (variant of NextIndex: i is not incremented)
NextIndexSame(k) == k

\* ++i
NextIndex(k) == k + 1

\* The loop over the successors of levels[i] ends
SolveAdvance ==
  /\ pc = "visit"
  /\ pending = <<>>
  /\ i' = NextIndex(i)
  /\ pc' = "loop"
  /\ UNCHANGED <<input, level, last, asserts, level_index, levels,
                 previous_level_index, pending, succs, result>>

RECURSIVE PathBack(_, _, _)
\* (variant of PathBack: the entry before levels[j] in the list is taken
\* for its predecessor)
PathBackDown(lvls, prev, j) ==
  IF j < 0 THEN <<>> ELSE <<lvls[j + 1]>> \o PathBack(lvls, prev, j - 1)

\* for (int j = i; j >= 0; j = previous_level_index[j]) result.push_back(levels[j]->first)
PathBack(lvls, prev, j) ==
  IF j < 0 THEN <<>> ELSE <<lvls[j + 1]>> \o PathBack(lvls, prev, prev[j + 1])

RECURSIVE Reverse(_)
\* std::reverse
Reverse(seq) == IF seq = <<>> THEN <<>> ELSE Append(Reverse(Tail(seq)), Head(seq))

\* next_level.Solved(): the path is built and returned
SolveFound ==
  /\ pc = "visit"
  /\ pending # <<>>
  /\ Solved(Head(pending))
  /\ result' = Reverse(<<Head(pending)>> \o PathBack(levels, previous_level_index, i))
  /\ pc' = "done"
  /\ UNCHANGED <<input, level, last, asserts, level_index, levels,
                 previous_level_index, i, pending, succs>>

\* (variant of RecordedPredecessor: the index of the new entry is recorded)
RecordedPredecessorSelf(cur, j) == j

\* (variant of RecordedPredecessor: the entry added last is recorded)
RecordedPredecessorLast(cur, j) == j - 1

\* previous_level_index.push_back(i), for the new entry of index j
RecordedPredecessor(cur, j) == cur

\* (variant of Find: every key is taken for an equivalent one)
FindAny(map, key) == DOMAIN map

\* The keys of a std::map that are equivalent to key: neither is less than
\* the other
Find(map, key) == {k \in DOMAIN map : ~LevelLess(k, key) /\ ~LevelLess(key, k)}

\* next_level is not solved: level_index.insert({next_level, j}), and when
\* it was inserted, the two push_back calls
SolveInsert ==
  /\ pc = "visit"
  /\ pending # <<>>
  /\ ~Solved(Head(pending))
  /\ IF Find(level_index, Head(pending)) # {}
     THEN UNCHANGED <<level_index, levels, previous_level_index>>
     ELSE /\ level_index' = level_index @@ (Head(pending) :> Len(levels))
          /\ levels' = Append(levels, Head(pending))
          /\ previous_level_index' =
               Append(previous_level_index, RecordedPredecessor(i, Len(levels)))
  /\ pending' = Tail(pending)
  /\ UNCHANGED <<input, level, last, asserts, i, succs, result, pc>>

NextSolve ==
  \/ SolveStart
  \/ SolveExpand
  \/ SolveExhausted
  \/ SolveAdvance
  \/ SolveFound
  \/ SolveInsert

SpecSolve == InitSolve /\ [][NextSolve]_vars

\* Solve has not returned.  Unreturned is enabled in exactly the states in
\* which an action of NextSolve is: those with pc # "done"; it states that
\* enabling condition without a call of Successors() or Solved().
Unreturned ==
  /\ pc # "done"
  /\ pc' = "done"
  /\ UNCHANGED <<input, level, last, asserts, level_index, levels,
                 previous_level_index, i, pending, succs, result>>

\* Solve is a sequential loop that nothing suspends: while it has not
\* returned, its next step is taken.  Every step of SpecSolve is a step of
\* NextSolve, so the condition is weak fairness of NextSolve.
FairSolve == SpecSolve /\ WF_vars(Unreturned \/ NextSolve)

\* ------------------------------------------------------------------------
\* Properties of MoveGroup (specification Spec)
\* ------------------------------------------------------------------------
BlockCells(L) ==
  {p \in (0..(L.height - 1)) \X (0..(L.width - 1)) : L.grid[p[1]][p[2]].type = MOVABLE}

\* A level in which some block would fall if gravity were applied
Unsettled(L) == DropDown(L).grid # L.grid

\* C1 (rollback exactness): when MoveGroup(g, 0, dc) returns false, the Level
\* after the call equals the Level before it: same width, height, group
\* count and cells; neither gravity nor a merge has been applied.
RollbackExact ==
  (last.called /\ last.op = "MoveGroup" /\ ~last.res) => level = last.pre

\* A failed push of a group of at least two cells, on a level whose blocks
\* are not settled
RollbackWitness ==
  /\ last.called /\ last.op = "MoveGroup" /\ ~last.res
  /\ Unsettled(last.pre)
  /\ Cardinality({p \in BlockCells(last.pre) :
                    last.pre.grid[p[1]][p[2]].group = last.group}) >= 2

\* C3 (group id contiguity): in the constructed level and after every
\* MoveGroup call, the ids carried by block cells are exactly 1..groups and
\* every other cell has group 0.
GroupIdsContiguous ==
  /\ {level.grid[p[1]][p[2]].group : p \in BlockCells(level)} = 1..level.groups
  /\ \A r \in 0..(level.height - 1) : \A c \in 0..(level.width - 1) :
       level.grid[r][c].type # MOVABLE => level.grid[r][c].group = 0

GroupColors(L, g) ==
  {L.grid[p[1]][p[2]].color : p \in {q \in BlockCells(L) : L.grid[q[1]][q[2]].group = g}}

\* A successful move that merged two groups and gave some surviving id to
\* blocks of another color than before (so ids were renumbered)
ContiguityWitness ==
  /\ last.called /\ last.op = "MoveGroup" /\ last.res
  /\ level.groups < last.pre.groups
  /\ level.groups >= 2
  /\ \E g \in 1..level.groups : GroupColors(level, g) # GroupColors(last.pre, g)

\* The push closure of group g in direction dc: the least set of block cells
\* that contains the cells of group g, contains the block lying in the push
\* direction of any member, and contains the blocks next to a member in the
\* other three directions that have the member's group id.
PushClosureStep(L, dc, S) ==
  S \cup {q \in BlockCells(L) :
            \E p \in S :
              \/ q = <<p[1], p[2] + dc>>
              \/ /\ q \in {<<p[1], p[2] - dc>>, <<p[1] + 1, p[2]>>, <<p[1] - 1, p[2]>>}
                 /\ L.grid[q[1]][q[2]].group = L.grid[p[1]][p[2]].group}

RECURSIVE PushClosureFrom(_, _, _)
PushClosureFrom(L, dc, S) ==
  LET T == PushClosureStep(L, dc, S)
  IN  IF T = S THEN S ELSE PushClosureFrom(L, dc, T)

PushClosure(L, g, dc) ==
  PushClosureFrom(L, dc, {p \in BlockCells(L) : L.grid[p[1]][p[2]].group = g})

HitsWall(L, S, dc) == \E p \in S : L.grid[p[1]][p[2] + dc].type = WALL

\* C7 (failure condition of a push): MoveGroup(g, 0, dc) returns false iff
\* the push closure of g contains a cell whose neighbor in the push
\* direction is a wall.
PushFailsIffWall ==
  (last.called /\ last.op = "MoveGroup") =>
    (~last.res <=> HitsWall(last.pre, PushClosure(last.pre, last.group, last.dc), last.dc))

\* A push that failed although no cell of the pushed group itself touches a
\* wall in the push direction: the wall stops a block of another group that
\* was in the way
PushFailsWitness ==
  /\ last.called /\ last.op = "MoveGroup" /\ ~last.res
  /\ ~HitsWall(last.pre, {p \in BlockCells(last.pre) :
                            last.pre.grid[p[1]][p[2]].group = last.group}, last.dc)

\* ------------------------------------------------------------------------
\* Properties of DropDown and Solved (specification SpecGrid)
\* ------------------------------------------------------------------------
\* C4 (gravity fixpoint): after one DropDown sweep every downward TryMove
\* on a block fails and a second sweep changes nothing.
GravityFixpoint ==
  (last.called /\ last.op = "DropDown") =>
    /\ \A p \in BlockCells(level) : ~TryMove(level.grid, p[1], p[2], 1, 0).res
    /\ DropDown(level).grid = level.grid

\* One sweep has taken a lone block down by two rows or more
GravityWitness ==
  /\ last.called /\ last.op = "DropDown"
  /\ Cardinality(BlockCells(last.pre)) = 1
  /\ \E p \in BlockCells(last.pre) : \E q \in BlockCells(level) : q[1] >= p[1] + 2

ColorCells(L, k) == {p \in BlockCells(L) : L.grid[p[1]][p[2]].color = k}

Adjacent(p, q) ==
  \/ (p[1] = q[1] /\ (p[2] = q[2] + 1 \/ q[2] = p[2] + 1))
  \/ (p[2] = q[2] /\ (p[1] = q[1] + 1 \/ q[1] = p[1] + 1))

RECURSIVE RegionFrom(_, _)
RegionFrom(S, R) ==
  LET T == R \cup {q \in S : \E p \in R : Adjacent(p, q)}
  IN  IF T = R THEN R ELSE RegionFrom(S, T)

\* The cells S form one region connected through 4-adjacency within S
OneRegion(S) == S = {} \/ RegionFrom(S, {CHOOSE p \in S : TRUE}) = S

\* C5 (win detection): Solved() is true iff for every color 1..9 the cells
\* of that color form one region connected through cells of that color.
SolvedIffOneRegionPerColor ==
  (last.called /\ last.op = "Solved") =>
    (last.res <=> \A k \in 1..9 : OneRegion(ColorCells(last.pre, k)))

\* Solved() was false on a grid with two cells of one color and one group
\* id that lie in different regions of that color
SolvedWitness ==
  /\ last.called /\ last.op = "Solved" /\ ~last.res
  /\ \E k \in 1..9 : \E p, q \in ColorCells(last.pre, k) :
       /\ last.pre.grid[p[1]][p[2]].group = last.pre.grid[q[1]][q[2]].group
       /\ q \notin RegionFrom(ColorCells(last.pre, k), {p})

\* ------------------------------------------------------------------------
\* Properties of Solve (specifications SpecSolve and FairSolve)
\* ------------------------------------------------------------------------
\* The level L with every cell of its grid written out
Explicit(L) ==
  [width |-> L.width, height |-> L.height, groups |-> L.groups,
   grid |-> [r \in 0..(L.height - 1) |-> [c \in 0..(L.width - 1) |->
               MkCell(L.grid[r][c].type, L.grid[r][c].color, L.grid[r][c].group)]]]

\* The states one successful horizontal MoveGroup call away from L, each
\* computed on a copy of L of its own
Moves(L) ==
  {Explicit(m.lv) : m \in {x \in {MoveGroup(L, a[1], 0, a[2]) : a \in (1..L.groups) \X {-1, 1}} : x.res}}

RECURSIVE ReachIn(_, _)
\* The states at most n successful moves away from a state of S
ReachIn(S, n) ==
  IF n <= 0 THEN S ELSE ReachIn(S \cup UNION {Moves(L) : L \in S}, n - 1)

RECURSIVE ReachAll(_)
ReachStep(S, T) == IF T = S THEN S ELSE ReachAll(T)

\* The states any number of successful moves away from a state of S
ReachAll(S) == ReachStep(S, S \cup UNION {Moves(L) : L \in S})

\* C2 (shortest-path guarantee): when Solve returns a non-empty path, no
\* sequence of successful horizontal moves with fewer moves than the path
\* leads from the initial state to a solved state.
ShortestPath ==
  (pc = "done" /\ Len(result) >= 2) =>
    \A L \in ReachIn({level}, Len(result) - 2) : ~Solved(L)

\* Solve has returned a path of two moves or more
ShortestPathWitness ==
  /\ pc = "done"
  /\ Len(result) >= 3

\* C8 (successor set): the list returned by Successors() for the expanded
\* state holds exactly the results of the successful moves, each made on a
\* fresh copy, and no state twice; the expanded state is unchanged.
SuccessorSet ==
  (pc = "visit") =>
    /\ Range(succs) = Moves(levels[i + 1])
    /\ \A a, b \in 1..Len(succs) : succs[a] = succs[b] => a = b
    /\ level_index[levels[i + 1]] = i

\* Successors() has returned a list for a state on which an attempt failed
\* before a later one succeeded, and from which a duplicate was discarded
SuccessorSetWitness ==
  /\ pc = "visit"
  /\ \E a, b \in 1..(2 * levels[i + 1].groups) :
       /\ a < b
       /\ ~MoveGroup(levels[i + 1], Attempts(levels[i + 1].groups)[a][1], 0,
                     Attempts(levels[i + 1].groups)[a][2]).res
       /\ MoveGroup(levels[i + 1], Attempts(levels[i + 1].groups)[b][1], 0,
                    Attempts(levels[i + 1].groups)[b][2]).res
  /\ Len(SuccessorsLoop(levels[i + 1], levels[i + 1], <<>>, 1)) > Len(succs)

\* C9 (termination): Solve eventually returns; the visited list never holds
\* a state twice, and the index of the expanded state only moves forward,
\* by one after each expansion, so no state is expanded twice.
SolveTerminates ==
  /\ <>(pc = "done")
  /\ [](\A a, b \in 1..Len(levels) : levels[a] = levels[b] => a = b)
  /\ [][/\ i' >= i
        /\ (pc = "loop" /\ pc' = "visit") => i' = i
        /\ (pc = "visit" /\ pc' = "loop") => i' = i + 1]_vars

\* Solve has returned by exhausting a visited list of three states or more
TerminationWitness ==
  /\ pc = "done"
  /\ result = <<>>
  /\ Len(levels) >= 3
  /\ i = Len(levels)

\* C10 (result encoding): the result is empty iff the initial state is
\* unsolved and no solved state is reachable; it is the initial state alone
\* iff the initial state is solved, and then no successor was generated;
\* otherwise it holds two states or more.
ResultEncoding ==
  (pc = "done") =>
    /\ (result = <<>>) <=> (\A L \in ReachAll({level}) : ~Solved(L))
    /\ (Len(result) = 1 /\ result[1] = level) <=> Solved(level)
    /\ Solved(level) => (levels = <<>> /\ succs = <<>>)
    /\ (result # <<>> /\ ~Solved(level)) => Len(result) >= 2

\* Solve has returned the empty result after expanding several states
ResultEncodingWitness ==
  /\ pc = "done"
  /\ result = <<>>
  /\ ~Solved(level)
  /\ Len(levels) >= 2
  /\ succs = <<>>

\* A and B are topologically identical: the same dimensions, the same type
\* and color in every cell, and the same partition of the block cells into
\* groups
TopoEqual(A, B) ==
  /\ A.width = B.width
  /\ A.height = B.height
  /\ \A r \in 0..(A.height - 1) : \A c \in 0..(A.width - 1) :
       /\ A.grid[r][c].type = B.grid[r][c].type
       /\ A.grid[r][c].color = B.grid[r][c].color
  /\ \A p, q \in BlockCells(A) :
       (A.grid[p[1]][p[2]].group = A.grid[q[1]][q[2]].group)
         <=> (B.grid[p[1]][p[2]].group = B.grid[q[1]][q[2]].group)

GroupIds(L) == {L.grid[p[1]][p[2]].group : p \in BlockCells(L)}

\* C6 as stated (canonical numbering): two topologically identical entries
\* of the visited list carry the same group ids in every cell, so that the
\* list never holds two entries that differ by a relabeling only.
CanonicalNumbering ==
  \A a, b \in 1..Len(levels) :
    TopoEqual(levels[a], levels[b]) => levels[a] = levels[b]

\* C6 as amended (numbering up to a relabeling): topologically identical
\* entries of the visited list have the same group count and each uses
\* exactly the ids 1..groups, but they may number the groups differently;
\* the dictionary keeps apart every two entries that are structurally
\* unequal, relabelings included: no entry is held twice, and every result
\* of a successful move of an expanded entry is an entry, with the group
\* ids it was made with.
NumberingUpToRelabeling ==
  /\ \A a, b \in 1..Len(levels) :
       /\ levels[a] = levels[b] => a = b
       /\ TopoEqual(levels[a], levels[b]) =>
            /\ levels[a].groups = levels[b].groups
            /\ GroupIds(levels[a]) = 1..levels[a].groups
            /\ GroupIds(levels[b]) = 1..levels[b].groups
  /\ (pc = "loop") =>
       \A a \in 1..i : \A L \in Moves(levels[a]) :
         \E b \in 1..Len(levels) : levels[b] = L

\* The visited list holds two entries that differ by a relabeling of the
\* group ids only
RelabelingWitness ==
  \E a, b \in 1..Len(levels) :
    /\ a # b
    /\ TopoEqual(levels[a], levels[b])
    /\ levels[a] # levels[b]

\* C11 (end-to-end unsolvable level): for the level whose single row is
\* "12 21", Solve returns the empty result after it has expanded every
\* entry of the visited list, which then holds exactly the states reachable
\* from the initial one, none of them solved.
ExhaustsUnsolvable ==
  (input = << <<"1", "2", " ", "2", "1">> >> /\ pc = "done") =>
    /\ result = <<>>
    /\ i = Len(levels)
    /\ {levels[k] : k \in 1..Len(levels)} = ReachAll({level})
    /\ \A L \in ReachAll({level}) : ~Solved(L)

\* Solve has returned for "12 21" with several visited states
ExhaustsUnsolvableWitness ==
  /\ input = << <<"1", "2", " ", "2", "1">> >>
  /\ pc = "done"
  /\ Len(levels) >= 3

\* ------------------------------------------------------------------------
\* Further properties of MoveGroup (specification Spec)
\* ------------------------------------------------------------------------
\* The grid of L with the cells of S moved one column in direction dc
Shifted(L, S, dc) ==
  [r \in 0..(L.height - 1) |-> [c \in 0..(L.width - 1) |->
     IF <<r, c - dc>> \in S THEN L.grid[r][c - dc]
     ELSE IF <<r, c>> \in S THEN Cell
     ELSE L.grid[r][c]]]

\* C12 (atomic push): when the horizontal TryMove of MoveGroup succeeds,
\* the grid before gravity is the grid before the call with every cell of
\* the push closure moved one column in the push direction, color and group
\* kept, and every other cell unchanged; when it fails, the grid is the one
\* before the call.
AtomicPush ==
  (last.called /\ last.op = "MoveGroup") =>
    IF last.res
    THEN last.pushed = Shifted(last.pre, PushClosure(last.pre, last.group, last.dc), last.dc)
    ELSE last.pushed = last.pre.grid /\ level = last.pre

\* A successful push whose closure holds cells of two groups and a cell of
\* the pushed group that is not in the row of its first cell
AtomicPushWitness ==
  /\ last.called /\ last.op = "MoveGroup" /\ last.res
  /\ \E p, q \in PushClosure(last.pre, last.group, last.dc) :
       /\ last.pre.grid[p[1]][p[2]].group = last.group
       /\ last.pre.grid[q[1]][q[2]].group # last.group
  /\ \E p, q \in PushClosure(last.pre, last.group, last.dc) :
       /\ last.pre.grid[p[1]][p[2]].group = last.group
       /\ last.pre.grid[q[1]][q[2]].group = last.group
       /\ p[1] # q[1]

\* C13 (merge pass completeness): in the constructed level and after every
\* MoveGroup call, two orthogonally adjacent block cells of the same
\* chromatic color have the same group id.
MergePassComplete ==
  \A p, q \in BlockCells(level) :
    (/\ Adjacent(p, q)
     /\ level.grid[p[1]][p[2]].color = level.grid[q[1]][q[2]].color
     /\ level.grid[p[1]][p[2]].color > 0)
      => level.grid[p[1]][p[2]].group = level.grid[q[1]][q[2]].group

\* One pass after a successful move has merged three groups into one
MergePassWitness ==
  /\ last.called /\ last.op = "MoveGroup" /\ last.res
  /\ level.groups + 2 <= last.pre.groups

\* ------------------------------------------------------------------------
\* Further properties of Solve (specification SpecSolve)
\* ------------------------------------------------------------------------
RECURSIVE Depth(_, _)
\* The number of predecessor links from the entry of index j to the initial
\* state
Depth(prev, j) == IF prev[j + 1] < 0 THEN 0 ELSE 1 + Depth(prev, prev[j + 1])

\* C14 (BFS order invariant): between the steps of Solve the dictionary,
\* the visited list and the predecessor list have the same size, the
\* visited list holds pairwise unequal states none of which is solved, the
\* predecessor index of every entry but the first is smaller than its own
\* index, and the depth of the entries does not decrease with the index.
BFSOrder ==
  /\ Cardinality(DOMAIN level_index) = Len(levels)
  /\ Len(previous_level_index) = Len(levels)
  /\ \A a \in 1..Len(levels) :
       /\ levels[a] \in DOMAIN level_index
       /\ level_index[levels[a]] = a - 1
       /\ ~Solved(levels[a])
       /\ \A b \in 1..Len(levels) : a # b => levels[a] # levels[b]
  /\ \A a \in 1..Len(levels) :
       IF a = 1 THEN previous_level_index[a] = -1
       ELSE previous_level_index[a] >= 0 /\ previous_level_index[a] < a - 1
  /\ \A a, b \in 1..Len(levels) :
       a <= b => Depth(previous_level_index, a - 1) <= Depth(previous_level_index, b - 1)

\* The visited list holds entries of three depths, and an entry whose
\* predecessor is not the entry right before it
BFSOrderWitness ==
  /\ \E a \in 1..Len(levels) : Depth(previous_level_index, a - 1) >= 2
  /\ \E a \in 2..Len(levels) : previous_level_index[a] < a - 2

\* C15 (path validity): a non-empty path returned by Solve starts with the
\* initial state, every later state is an element of Successors() of the
\* state before it, the last state is solved and no earlier one is.
PathValid ==
  (pc = "done" /\ result # <<>>) =>
    /\ result[1] = level
    /\ \A k \in 1..(Len(result) - 1) :
         /\ result[k + 1] \in Range(Successors(result[k]))
         /\ ~Solved(result[k])
    /\ Solved(result[Len(result)])

\* Solve has returned a path of three moves
PathValidWitness ==
  /\ pc = "done"
  /\ Len(result) >= 4
  /\ result[1] = level

\* The cells of the given type in a grid of the dimensions of L
CellsOfType(L, grid, t) ==
  {p \in (0..(L.height - 1)) \X (0..(L.width - 1)) : grid[p[1]][p[2]].type = t}

\* C16 (destination assertion): in the constructor no assertion fails, and
\* in every MoveGroup call the destination of every recorded cell is OPEN
\* when TryMove writes it, in the horizontal push and in the pushes of
\* DropDown, on success and on rollback; the walls stay where they were and
\* the number of blocks is the same after the push and after gravity.
DestinationOpen ==
  /\ asserts
  /\ (last.called /\ last.op = "MoveGroup") =>
       /\ last.placed
       /\ CellsOfType(last.pre, last.pushed, WALL) = CellsOfType(last.pre, last.pre.grid, WALL)
       /\ CellsOfType(last.pre, last.dropped, WALL) = CellsOfType(last.pre, last.pre.grid, WALL)
       /\ Cardinality(CellsOfType(last.pre, last.pushed, MOVABLE)) = Cardinality(BlockCells(last.pre))
       /\ Cardinality(CellsOfType(last.pre, last.dropped, MOVABLE)) = Cardinality(BlockCells(last.pre))

\* A successful push of two cells or more after which gravity moved a block
DestinationOpenWitness ==
  /\ last.called /\ last.op = "MoveGroup" /\ last.res
  /\ Cardinality(PushClosure(last.pre, last.group, last.dc)) >= 2
  /\ last.dropped # last.pushed

\* The blocks and walls of L are where the input has them, with the colors
\* of the input
AtInputPositions(L, in) ==
  /\ L.height = Len(in) + 2
  /\ L.width = Len(in[1]) + 2
  /\ \A r \in 1..Len(in) : \A c \in 1..Len(in[1]) :
       IF IsDigit(in[r][c])
       THEN L.grid[r][c].type = MOVABLE /\ L.grid[r][c].color = DigitValue(in[r][c])
       ELSE IF in[r][c] = "#" THEN L.grid[r][c].type = WALL
       ELSE L.grid[r][c].type = OPEN

\* The cells of L outside the set S that are blocks in the grid pushed and
\* not in the grid dropped: blocks that gravity moved without their having
\* been pushed
FellUnpushed(L, S, pushed, dropped) ==
  {p \in BlockCells(L) \ S :
     pushed[p[1]][p[2]].type = MOVABLE /\ dropped[p[1]][p[2]].type # MOVABLE}

\* The result mv of a MoveGroup call on the initial level L: a successful
\* call leaves no block that can fall, a failed one leaves L as it was
FirstMoveSettles(L, mv) ==
  IF mv.res THEN ~Unsettled(mv.lv) ELSE mv.lv = L

\* C17 (initial state is not settled): the constructor leaves every block
\* at its input position; Solve tests Solved() on that level as it is, and
\* returns it alone when it is solved; every successful MoveGroup call on
\* it leaves a level in which no block can fall, every failed one leaves it
\* unchanged, unsettled or not.
InitialNotSettled ==
  /\ AtInputPositions(level, input)
  /\ (pc # "start" /\ Solved(level)) => (pc = "done" /\ result = <<level>>)
  /\ (pc = "visit" /\ i = 0) =>
       /\ levels[1] = level
       /\ \A g \in 1..level.groups : \A dc \in {-1, 1} :
            FirstMoveSettles(level, MoveGroup(level, g, 0, dc))
       /\ \A k \in 1..Len(succs) : ~Unsettled(succs[k])

\* Solve expands an unsettled initial level on which one move fails and
\* another succeeds and lets a block fall that was not pushed
InitialNotSettledWitness ==
  /\ pc = "visit" /\ i = 0
  /\ Unsettled(level)
  /\ \E g \in 1..level.groups : \E dc \in {-1, 1} : ~MoveGroup(level, g, 0, dc).res
  /\ \E g \in 1..level.groups : \E dc \in {-1, 1} :
       /\ MoveGroup(level, g, 0, dc).res
       /\ FellUnpushed(level, PushClosure(level, g, dc),
                       MoveGroup(level, g, 0, dc).pushed,
                       MoveGroup(level, g, 0, dc).dropped) # {}

\* ------------------------------------------------------------------------
\* Further properties of the levels MoveGroup produces (specification Spec)
\* ------------------------------------------------------------------------
GroupCells(L, g) == {p \in BlockCells(L) : L.grid[p[1]][p[2]].group = g}

\* The same-color blocks next to a cell of S that are not in S
SameColorBorder(L, S) ==
  {q \in BlockCells(L) \ S :
     \E p \in S : Adjacent(p, q) /\ L.grid[p[1]][p[2]].color = L.grid[q[1]][q[2]].color}

TaggedLevel(L) ==
  [L EXCEPT !.grid = [r \in 0..(L.height - 1) |-> [c \in 0..(L.width - 1) |->
     IF L.grid[r][c].type = MOVABLE
     THEN [type |-> MOVABLE, color |-> L.grid[r][c].color,
           group |-> L.grid[r][c].group, id |-> <<r, c>>]
     ELSE L.grid[r][c]]]]

\* The position in the tagged level T of the block that was at p
Where(T, p) == CHOOSE q \in BlockCells(T) : T.grid[q[1]][q[2]].id = p

\* T, the result of a move of the tagged level L, has the cells of the
\* result M of the same move of L
SameCells(T, M) ==
  \A r \in 0..(M.height - 1) : \A c \in 0..(M.width - 1) :
    /\ T.grid[r][c].type = M.grid[r][c].type
    /\ T.grid[r][c].color = M.grid[r][c].color
    /\ T.grid[r][c].group = M.grid[r][c].group

\* The blocks that share a group in L share a group in T and are at the
\* same offset from each other
GroupsKept(L, T) ==
  \A p, q \in BlockCells(L) :
    L.grid[p[1]][p[2]].group = L.grid[q[1]][q[2]].group =>
      /\ T.grid[Where(T, p)[1]][Where(T, p)[2]].group
           = T.grid[Where(T, q)[1]][Where(T, q)[2]].group
      /\ Where(T, q)[1] - Where(T, p)[1] = q[1] - p[1]
      /\ Where(T, q)[2] - Where(T, p)[2] = q[2] - p[2]

MergesKept(L, T, M) ==
  /\ SameCells(T, M)
  /\ M.groups <= L.groups
  /\ \A p \in BlockCells(L) : \E q \in BlockCells(T) : T.grid[q[1]][q[2]].id = p
  /\ GroupsKept(L, T)

\* C19 (merges are irreversible): a successful MoveGroup call does not
\* increase the group count, and the blocks that shared a group id before
\* the call share one after it and are at the same offset from each other;
\* as this holds of every successful call on every reachable level, it
\* holds between a state and every later one.
MergesIrreversible ==
  (last.called /\ last.op = "MoveGroup" /\ last.res) =>
    MergesKept(last.pre, MoveGroup(TaggedLevel(last.pre), last.group, 0, last.dc).lv, level)

\* Moved(L, T): a block of a group of two cells or more is in another row
\* and another column of T than of L
Moved(L, T) ==
  \E p, q \in BlockCells(L) :
    /\ p # q
    /\ L.grid[p[1]][p[2]].group = L.grid[q[1]][q[2]].group
    /\ Where(T, p)[1] # p[1]
    /\ Where(T, p)[2] # p[2]

\* A successful move in which a group of two cells or more was pushed and
\* then fell
MergesWitness ==
  /\ last.called /\ last.op = "MoveGroup" /\ last.res
  /\ Moved(last.pre, MoveGroup(TaggedLevel(last.pre), last.group, 0, last.dc).lv)

\* The cells of the border ring of L
BorderRing(L) ==
  {p \in (0..(L.height - 1)) \X (0..(L.width - 1)) :
     p[1] \in {0, L.height - 1} \/ p[2] \in {0, L.width - 1}}

\* M has the dimensions, the walls and, for each color, the number of blocks
\* of L, and its cells that are not blocks carry neither color nor group
Conserved(L, M) ==
  /\ M.width = L.width
  /\ M.height = L.height
  /\ DOMAIN M.grid = 0..(L.height - 1)
  /\ \A r \in DOMAIN M.grid : DOMAIN M.grid[r] = 0..(L.width - 1)
  /\ CellsOfType(M, M.grid, WALL) = CellsOfType(L, L.grid, WALL)
  /\ BorderRing(M) \subseteq CellsOfType(M, M.grid, WALL)
  /\ \A k \in 0..9 : Cardinality(ColorCells(M, k)) = Cardinality(ColorCells(L, k))
  /\ CellsOfType(M, M.grid, OPEN) \cup CellsOfType(M, M.grid, WALL) \cup BlockCells(M)
       = (0..(M.height - 1)) \X (0..(M.width - 1))
  /\ \A p \in CellsOfType(M, M.grid, OPEN) : M.grid[p[1]][p[2]] = Cell
  /\ \A p \in CellsOfType(M, M.grid, WALL) :
       M.grid[p[1]][p[2]].color = 0 /\ M.grid[p[1]][p[2]].group = 0

\* C20 (conservation): every MoveGroup call, successful or not, leaves the
\* width, the height and the set of wall cells, the whole border ring
\* among them, as they were, and leaves the number of block cells of each
\* color as it was; only positions and group ids of blocks change.
Conservation ==
  (last.called /\ last.op = "MoveGroup") => Conserved(last.pre, level)

\* A successful move of a level with blocks of two colors and a wall inside
\* the border ring, after which blocks are at other positions and the
\* groups are fewer
ConservationWitness ==
  /\ last.called /\ last.op = "MoveGroup" /\ last.res
  /\ ColorCells(level, 1) # {} /\ ColorCells(level, 2) # {}
  /\ CellsOfType(level, level.grid, WALL) # BorderRing(level)
  /\ BlockCells(level) # BlockCells(last.pre)
  /\ level.groups < last.pre.groups

====
